---- MODULE Spec2Model ----
(***************************************************************************)
(* Model of the MCP study client (class Client): a JSON-RPC session over   *)
(* a child process's standard streams.  The Client's fields, the listeners *)
(* it attaches to each process, the bytes it writes to each process's      *)
(* stdin, the promises returned by request() and the promise-continuation  *)
(* (microtask) queue of the async functions connect() and initialize()     *)
(* are the state.  Inbound text is a sequence of tokens so that trim, the  *)
(* brace test and JSON.parse are computed, not assumed.                    *)
(***************************************************************************)
EXTENDS Integers, Sequences, FiniteSets, TLC

\* Bound: the number of requests a run may allocate (guards only).
MaxId == 3

\* The child processes a caller may hand to connect(); null is no process.
Procs == {"A", "B"}
NoProc == "null"

VARIABLES
    serverProcess,      \* Client.serverProcess: a process or NoProc
    nextRequestId,      \* Client.nextRequestId
    responseHandlers,   \* Client._responseHandlers: id -> promise it settles
    isConnected,        \* Client.isConnected
    attached,           \* per process: number of connect() calls that attached listeners
    closed,             \* per process: its close event has fired
    stdin,              \* per process: the messages written to its input stream
    promises,           \* the promises created by request(), in creation order
    microtasks,         \* pending continuations of initialize()/connect()
    thrown              \* the operation whose last call was rejected at once, or "none"

vars == <<serverProcess, nextRequestId, responseHandlers, isConnected,
          attached, closed, stdin, promises, microtasks, thrown>>

client == <<serverProcess, nextRequestId, responseHandlers, isConnected>>

\* The part of the state that inbound data can change.
inbound == [h |-> responseHandlers, pr |-> promises, mt |-> microtasks]

----------------------------------------------------------------------------
\* Inbound text: tokens <<tag, value>>.

LB == <<"{", 0>>
RB == <<"}", 0>>
NL == <<"nl", 0>>
TXT == <<"txt", 0>>
IdTok(n) == <<"id", n>>
OutTok(kind, v) == <<kind, v>>

\* The JSON objects a server can emit: Response with id, or an object without id.
Objects ==
    [hasId : {TRUE}, id : 0..MaxId, kind : {"result"}, val : {1}]
      \cup [hasId : {TRUE}, id : 0..MaxId, kind : {"error"}, val : {-32000}]
      \cup [hasId : {FALSE}, id : {0}, kind : {"result"}, val : {1}]

\* JSON.stringify of an object.
Stringify(r) ==
    <<LB>> \o (IF r.hasId THEN <<IdTok(r.id)>> ELSE <<>>)
           \o <<OutTok(r.kind, r.val)>> \o <<RB>>

\* A frame: the serialized object and one newline.
Frame(r) == Stringify(r) \o <<NL>>

RECURSIVE TrimLeft(_)
TrimLeft(s) == IF s # <<>> /\ Head(s) = NL THEN TrimLeft(Tail(s)) ELSE s

RECURSIVE TrimRight(_)
TrimRight(s) ==
    IF s # <<>> /\ s[Len(s)] = NL THEN TrimRight(SubSeq(s, 1, Len(s) - 1)) ELSE s

\* String.prototype.trim
Trim(s) == TrimRight(TrimLeft(s))

StartsWithBrace(s) == s # <<>> /\ s[1] = LB
EndsWithBrace(s) == s # <<>> /\ s[Len(s)] = RB

IsOutTok(t) == t[1] \in {"result", "error"}
IsIdTok(t) == t[1] = "id"

\* JSON.parse: succeeds only on exactly one well-formed object.
JsonParse(s) ==
    LET n == Len(s)
        bad == [ok |-> FALSE, value |-> [hasId |-> FALSE, id |-> 0, kind |-> "none", val |-> 0]]
    IN  IF n < 2 \/ s[1] # LB \/ s[n] # RB THEN bad
        ELSE IF n = 2
            THEN [ok |-> TRUE, value |-> [hasId |-> FALSE, id |-> 0, kind |-> "none", val |-> 0]]
        ELSE IF n = 3 /\ IsOutTok(s[2])
            THEN [ok |-> TRUE, value |-> [hasId |-> FALSE, id |-> 0, kind |-> s[2][1], val |-> s[2][2]]]
        ELSE IF n = 3 /\ IsIdTok(s[2])
            THEN [ok |-> TRUE, value |-> [hasId |-> TRUE, id |-> s[2][2], kind |-> "none", val |-> 0]]
        ELSE IF n = 4 /\ IsIdTok(s[2]) /\ IsOutTok(s[3])
            THEN [ok |-> TRUE, value |-> [hasId |-> TRUE, id |-> s[2][2], kind |-> s[3][1], val |-> s[3][2]]]
        ELSE bad

\* The chunks one 'data' event can carry: one complete frame (a response for
\* any id, also 0 and ids never issued, or an object without id), text that is
\* not JSON, braces around text that is not JSON, the two halves of a frame
\* split between two reads, and two frames in one read.
Responses == {o \in Objects : o.hasId /\ o.id # 0}
FrameChunks ==
    {Frame(r) : r \in Responses \cup {o \in Objects : o.kind = "result" /\ o.id = 0}}
FirstHalf(r) == SubSeq(Frame(r), 1, 2)
SecondHalf(r) == SubSeq(Frame(r), 3, Len(Frame(r)))
SplitOf == [hasId |-> TRUE, id |-> 1, kind |-> "result", val |-> 1]
PairWith == [hasId |-> TRUE, id |-> 2, kind |-> "result", val |-> 1]
SplitChunks == {FirstHalf(SplitOf), SecondHalf(SplitOf)}
PairChunks == {Frame(SplitOf) \o Frame(PairWith)}
NoiseChunks == {<<TXT, NL>>, <<LB, TXT, RB, NL>>}
Chunks == FrameChunks \cup SplitChunks \cup PairChunks \cup NoiseChunks

----------------------------------------------------------------------------
\* request(): id allocation, registration and the continuation it registers.

\* Variant: the counter is read but not advanced.
NextIdStuck(n) == n

NextId(n) == n + 1

\* Map.set: the entry for id is replaced if present.
MapSet(h, id, k) == (id :> k) @@ h

\* Map.delete
MapDelete(h, id) == [i \in DOMAIN h \ {id} |-> h[i]]

\* Variant: the continuation resolves with whatever the response carries.
CallbackIgnoresError(p, response) ==
    LET inv == IF p.invoked < 2 THEN p.invoked + 1 ELSE 2 IN
    IF p.status # "pending" THEN [p EXCEPT !.invoked = inv]
    ELSE [p EXCEPT !.status = "resolved", !.val = response.val, !.invoked = inv]

\* The continuation registered by request(): reject on error, else resolve.
\* A promise settles once; later resolve/reject calls are ignored.
Callback(p, response) ==
    LET inv == IF p.invoked < 2 THEN p.invoked + 1 ELSE 2 IN
    IF p.status # "pending" THEN [p EXCEPT !.invoked = inv]
    ELSE IF response.kind = "error"
        THEN [p EXCEPT !.status = "rejected", !.val = response.val, !.invoked = inv]
        ELSE [p EXCEPT !.status = "resolved", !.val = response.val, !.invoked = inv]

\* response.id && this._responseHandlers.has(response.id)
HasHandler(h, response) ==
    response.hasId /\ response.id # 0 /\ response.id \in DOMAIN h

\* Variant: responses are taken to arrive in request order.
LookupOldest(h, response) == h[CHOOSE i \in DOMAIN h : \A j \in DOMAIN h : i <= j]

\* The promise whose continuation is looked up for a response.
Lookup(h, response) == h[response.id]

\* Variant: the entry stays registered.
AfterDispatchKeeps(h, response) == h

\* After the callback ran: the entry is deleted.
AfterDispatch(h, response) == MapDelete(h, response.id)

\* The brace test guarding JSON.parse.
LooksLikeJson(output) == StartsWithBrace(output) /\ EndsWithBrace(output)

\* Oldest registered id, and the state after failing its call.
Oldest(h) == CHOOSE i \in DOMAIN h : \A j \in DOMAIN h : i <= j
FailOldest(st) ==
    IF DOMAIN st.h = {} THEN st
    ELSE LET k == st.h[Oldest(st.h)]
             p == st.pr[k]
         IN  [h  |-> MapDelete(st.h, Oldest(st.h)),
              pr |-> [st.pr EXCEPT ![k] =
                        [p EXCEPT !.status = "rejected", !.invoked = 1]],
              mt |-> IF p.method = "initialize"
                        THEN Append(st.mt, <<k, "initialize">>) ELSE st.mt]

\* Variant: a response whose id is not registered is handed to the oldest
\* registered continuation.
HandleServerOutputFallsBack(st, data) ==
    LET output == Trim(data) IN
    IF ~LooksLikeJson(output) THEN st
    ELSE LET parsed == JsonParse(output) IN
         IF ~parsed.ok THEN st
         ELSE LET response == parsed.value IN
              IF ~(response.hasId /\ response.id # 0) \/ DOMAIN st.h = {} THEN st
              ELSE LET id == IF response.id \in DOMAIN st.h
                                THEN response.id ELSE Oldest(st.h)
                       k == st.h[id]
                       p == st.pr[k]
                   IN  [h  |-> MapDelete(st.h, id),
                        pr |-> [st.pr EXCEPT ![k] = Callback(p, response)],
                        mt |-> IF p.status = "pending" /\ p.method = "initialize"
                                  THEN Append(st.mt, <<k, "initialize">>)
                                  ELSE st.mt]

\* Variant: the catch block of a failed JSON.parse fails the oldest pending call.
HandleServerOutputFailsOnParseError(st, data) ==
    LET output == Trim(data) IN
    IF ~LooksLikeJson(output) THEN st
    ELSE LET parsed == JsonParse(output) IN
         IF ~parsed.ok THEN FailOldest(st)
         ELSE LET response == parsed.value IN
              IF ~HasHandler(st.h, response) THEN st
              ELSE LET k == Lookup(st.h, response)
                       p == st.pr[k]
                   IN  [h  |-> AfterDispatch(st.h, response),
                        pr |-> [st.pr EXCEPT ![k] = Callback(p, response)],
                        mt |-> IF p.status = "pending" /\ p.method = "initialize"
                                  THEN Append(st.mt, <<k, "initialize">>)
                                  ELSE st.mt]

\* handleServerOutput on the state st = [h, pr, mt].
HandleServerOutput(st, data) ==
    LET output == Trim(data) IN
    IF ~LooksLikeJson(output) THEN st
    ELSE LET parsed == JsonParse(output) IN
         IF ~parsed.ok THEN st
         ELSE LET response == parsed.value IN
              IF ~HasHandler(st.h, response) THEN st
              ELSE LET k == Lookup(st.h, response)
                       p == st.pr[k]
                       q == Callback(p, response)
                   IN  [h  |-> AfterDispatch(st.h, response),
                        pr |-> [st.pr EXCEPT ![k] = q],
                        mt |-> IF p.status = "pending" /\ p.method = "initialize"
                                  THEN Append(st.mt, <<k, "initialize">>)
                                  ELSE st.mt]

\* One 'data' event invokes every stdout listener attached to the process.
RECURSIVE Emit(_, _, _)
Emit(st, data, n) ==
    IF n = 0 THEN st ELSE Emit(HandleServerOutput(st, data), data, n - 1)

----------------------------------------------------------------------------

Init ==
    /\ serverProcess = NoProc
    /\ nextRequestId = 1
    /\ responseHandlers = <<>>
    /\ isConnected = FALSE
    /\ attached = [p \in Procs |-> 0]
    /\ closed = [p \in Procs |-> FALSE]
    /\ stdin = [p \in Procs |-> <<>>]
    /\ promises = <<>>
    /\ microtasks = <<>>
    /\ thrown = "none"

\* request(method) with this.serverProcess = proc (non-null): allocate the id,
\* create the promise, register its continuation and write the request.
Request(method, proc) ==
    /\ nextRequestId' = NextId(nextRequestId)
    /\ promises' = Append(promises,
          [id |-> nextRequestId, method |-> method, proc |-> proc,
           status |-> "pending", val |-> 0, invoked |-> 0,
           conn |-> IF method = "initialize" THEN "pending" ELSE "none"])
    /\ responseHandlers' = MapSet(responseHandlers, nextRequestId, Len(promises) + 1)
    /\ stdin' = [stdin EXCEPT ![proc] = Append(@, <<method, nextRequestId>>)]

\* Process names are arbitrary: the first process a caller ever connects is
\* called "A".
FirstIsA(p) == p = "A" \/ attached["A"] > 0

\* connect() throws when this holds.
ConnectRejects == isConnected

\* connect(p) up to its first suspension (await this.initialize()).  Callers
\* hand over a live process: one whose close event has not fired.  Caller code
\* runs between events, never inside the continuation queue.
Connect(p) ==
    /\ ~closed[p]
    /\ FirstIsA(p)
    /\ microtasks = <<>>
    /\ IF ConnectRejects
          THEN /\ thrown' = "connect"
               /\ UNCHANGED <<client, attached, closed, stdin, promises, microtasks>>
          ELSE /\ nextRequestId <= MaxId
               /\ serverProcess' = p
               /\ attached' = [attached EXCEPT ![p] = @ + 1]
               /\ Request("initialize", p)
               /\ thrown' = "none"
               /\ UNCHANGED <<isConnected, closed, microtasks>>

\* Variant: listTools tests the transport instead of the Ready flag.
ListToolsChecksTransport == serverProcess = NoProc

\* listTools() rejects without calling request() when this holds.
ListToolsRejects == ~isConnected

\* listTools() up to its suspension (await this.request("tools/list")).
ListTools ==
    /\ microtasks = <<>>
    /\ IF ListToolsRejects \/ serverProcess = NoProc
       THEN /\ thrown' = "listTools"
            /\ UNCHANGED <<client, attached, closed, stdin, promises, microtasks>>
       ELSE /\ nextRequestId <= MaxId
            /\ Request("tools/list", serverProcess)
            /\ thrown' = "none"
            /\ UNCHANGED <<serverProcess, isConnected, attached, closed, microtasks>>

\* Variant: disconnect also restarts the id counter.
DisconnectResetsIds ==
    /\ microtasks = <<>>
    /\ isConnected' = FALSE
    /\ serverProcess' = NoProc
    /\ nextRequestId' = 1
    /\ thrown' = "none"
    /\ UNCHANGED <<responseHandlers, attached, closed, stdin, promises, microtasks>>

\* disconnect()
Disconnect ==
    /\ microtasks = <<>>
    /\ isConnected' = FALSE
    /\ serverProcess' = NoProc
    /\ thrown' = "none"
    /\ UNCHANGED <<nextRequestId, responseHandlers, attached, closed, stdin,
                   promises, microtasks>>

\* A 'data' event on p's stdout.  I/O events are delivered by the event loop
\* only once the promise-continuation queue is empty.
Data(p, data) ==
    /\ attached[p] > 0
    /\ ~closed[p]
    /\ microtasks = <<>>
    /\ UNCHANGED <<serverProcess, nextRequestId, isConnected, attached, closed, stdin>>
    /\ thrown' = "none"
    /\ LET st == Emit(inbound, data, attached[p])
       IN  /\ responseHandlers' = st.h
           /\ promises' = st.pr
           /\ microtasks' = st.mt

\* Variant: the close listener clears the Ready flag and keeps the process.
CloseHandlerKeepsProcess(p) == <<FALSE, serverProcess>>

\* What the 'close' listener does to (isConnected, serverProcess).
CloseHandler(p) == <<FALSE, NoProc>>

\* The 'close' event of process p: every close listener attached to p runs.
Close(p) ==
    /\ ~closed[p]
    /\ attached[p] > 0
    /\ microtasks = <<>>
    /\ closed' = [closed EXCEPT ![p] = TRUE]
    /\ IF attached[p] > 0
          THEN /\ isConnected' = CloseHandler(p)[1]
               /\ serverProcess' = CloseHandler(p)[2]
          ELSE UNCHANGED <<isConnected, serverProcess>>
    /\ thrown' = "none"
    /\ UNCHANGED <<nextRequestId, responseHandlers, attached, stdin, promises, microtasks>>

\* notification(method): writes to the current serverProcess, or does nothing.
Notification(method) ==
    IF serverProcess = NoProc
       THEN stdin' = stdin
       ELSE stdin' = [stdin EXCEPT ![serverProcess] = Append(@, <<method, 0>>)]

\* initialize() resumed after `await this.request("initialize")` settled.
ResumeInitialize(k) ==
    /\ microtasks # <<>>
    /\ Head(microtasks) = <<k, "initialize">>
    /\ IF promises[k].status = "resolved"
          THEN Notification("notifications/initialized")
          ELSE stdin' = stdin
    /\ microtasks' = Append(Tail(microtasks), <<k, "connect">>)
    /\ thrown' = "none"
    /\ UNCHANGED <<client, attached, closed, promises>>

\* What connect() assigns to isConnected after a successful initialize().
ConnectedAfterInit == TRUE

\* connect() resumed after `await this.initialize()` settled.
ResumeConnect(k) ==
    /\ microtasks # <<>>
    /\ Head(microtasks) = <<k, "connect">>
    /\ microtasks' = Tail(microtasks)
    /\ IF promises[k].status = "resolved"
          THEN /\ isConnected' = ConnectedAfterInit
               /\ promises' = [promises EXCEPT ![k].conn = "resolved"]
          ELSE /\ isConnected' = isConnected
               /\ promises' = [promises EXCEPT ![k].conn = "rejected"]
    /\ thrown' = "none"
    /\ UNCHANGED <<serverProcess, nextRequestId, responseHandlers, attached, closed, stdin>>

Next ==
    \/ \E p \in Procs : Connect(p)
    \/ ListTools
    \/ Disconnect
    \/ \E p \in Procs, data \in Chunks : Data(p, data)
    \/ \E p \in Procs : Close(p)
    \/ \E k \in 1..MaxId : ResumeInitialize(k)
    \/ \E k \in 1..MaxId : ResumeConnect(k)

Spec == Init /\ [][Next]_vars

----------------------------------------------------------------------------
\* Session states as the Client's fields show them.

Ready == isConnected

InitPromises == {k \in 1..Len(promises) : promises[k].method = "initialize"}

\* An initialize request is outstanding on an attached transport.
Handshaking ==
    /\ ~isConnected
    /\ serverProcess # NoProc
    /\ \E k \in InitPromises : promises[k].status = "pending"

Notified == <<"notifications/initialized", 0>>

ErrorCodes == {-32000}

\* The Client's fields and everything it has attached, created or written.
clientEffects == <<client, attached, stdin, promises, microtasks>>

\* The initialize request written to p was answered successfully and the
\* initialized notification was written to p.
HandshakeDone(p) ==
    /\ \E k \in InitPromises : promises[k].proc = p /\ promises[k].status = "resolved"
    /\ \E i \in 1..Len(stdin[p]) : stdin[p][i] = Notified

WritesToolsList(p) ==
    /\ Len(stdin'[p]) = Len(stdin[p]) + 1
    /\ stdin'[p][Len(stdin'[p])][1] = "tools/list"

\* C1: no tools/list request is written to a process before the initialize
\* request written to that process was answered successfully and the
\* initialized notification was written to that process.
C1_NoCallBeforeHandshake ==
    [][\A p \in Procs : WritesToolsList(p) => HandshakeDone(p)]_vars

\* C2: whenever connect() sets isConnected, the initialized notification was
\* written to the transport by the initialize() that connect awaited (it is the
\* last thing written to the attached process).
C2_ReadyOnlyAfterNotification ==
    [][\A k \in 1..Len(promises) :
          (ResumeConnect(k) /\ promises[k].status = "resolved")
             => /\ serverProcess # NoProc
                /\ stdin[serverProcess] # <<>>
                /\ stdin[serverProcess][Len(stdin[serverProcess])] = Notified]_vars

\* C3: a close event fails every pending call and leaves the registry empty.
C3_CloseDrainsRegistry ==
    [][\A p \in Procs :
          (Close(p) /\ attached[p] > 0)
             => /\ DOMAIN responseHandlers' = {}
                /\ \A k \in 1..Len(promises) : promises'[k].status # "pending"]_vars

\* C4: connect does not stay pending once its process has closed: if the close
\* event fired and no initialize response arrived, connect has failed.
C4_ConnectFailsOnClose ==
    \A k \in InitPromises :
        (closed[promises[k].proc] /\ promises[k].status = "pending")
            => promises[k].conn = "rejected"

\* C5: connect while Ready or Handshaking is rejected and changes nothing.
C5_ConnectRejectedUnlessDisconnected ==
    [][\A p \in Procs :
          (Connect(p) /\ (Ready \/ Handshaking))
             => (thrown' = "connect" /\ UNCHANGED clientEffects)]_vars

\* C6: listTools in any state other than Ready fails at once: nothing is
\* written, no id is allocated and no continuation is registered.
C6_ListToolsNeedsReady ==
    [][(ListTools /\ ~Ready)
          => (thrown' = "listTools" /\ UNCHANGED clientEffects)]_vars

\* C6 witness: listTools was rejected during a handshake, with a transport attached.
C6_Witness == thrown = "listTools" /\ Handshaking

\* An error response was consumed for promise k.
GotError(k) == promises[k].val \in ErrorCodes

\* C7: an error response to initialize rejects connect with the remote code,
\* and the continuations of that handshake neither set isConnected nor write
\* the initialized notification.
C7_InitErrorFailsConnect ==
    /\ [](\A k \in InitPromises :
            GotError(k) =>
               /\ promises[k].status = "rejected"
               /\ promises[k].conn # "resolved"
               /\ promises[k].conn = "pending"
                     => \E i \in 1..Len(microtasks) : microtasks[i][1] = k)
    /\ [][\A k \in InitPromises :
            (GotError(k) /\ (ResumeInitialize(k) \/ ResumeConnect(k)))
               => (isConnected' = isConnected /\ stdin' = stdin)]_vars

\* C7 witness: a connect failed on an error response and the listTools that
\* followed was rejected.
C7_Witness ==
    /\ \E k \in InitPromises : GotError(k) /\ promises[k].conn = "rejected"
    /\ ~isConnected
    /\ thrown = "listTools"

\* C8: ids are allocated in strictly increasing order and never reused; the
\* registry maps an id only to the call that was issued with it, and a
\* register never replaces an entry.
C8_IdsIncreaseNoOverwrite ==
    /\ [](/\ \A j, k \in 1..Len(promises) : j < k => promises[j].id < promises[k].id
          /\ \A k \in 1..Len(promises) : promises[k].id < nextRequestId
          /\ \A id \in DOMAIN responseHandlers : promises[responseHandlers[id]].id = id)
    /\ [][\A id \in DOMAIN responseHandlers :
             id \in DOMAIN responseHandlers' => responseHandlers'[id] = responseHandlers[id]]_vars

\* C8 witness: every id of the bound was allocated and several are registered.
C8_Witness ==
    /\ Len(promises) = MaxId
    /\ Cardinality(DOMAIN responseHandlers) >= 2

\* C9: a call is completed only by a response frame whose id is the call's id,
\* and with that response's result or error.
C9_ResponseMatchesCall ==
    [][\A k \in 1..Len(promises) :
          (promises[k].status = "pending" /\ promises'[k].status # "pending")
             => \E p \in Procs, r \in Responses :
                   /\ r.id = promises[k].id
                   /\ Data(p, Frame(r))
                   /\ promises'[k].val = r.val
                   /\ promises'[k].status =
                         (IF r.kind = "error" THEN "rejected" ELSE "resolved")]_vars

\* C9 witness: two tools/list calls were pending at once and the later one was
\* answered first.
C9_Witness ==
    \E j, k \in 1..Len(promises) :
        /\ j < k
        /\ promises[j].method = "tools/list" /\ promises[j].status = "pending"
        /\ promises[k].method = "tools/list" /\ promises[k].status = "resolved"

\* C10: the continuation of a call runs at most once, a completed call is no
\* longer registered, and delivering a response for the id of a completed
\* call, to the listeners of any process, completes nothing and changes nothing.
C10_CompletedAtMostOnce ==
    /\ \A k \in 1..Len(promises) :
          /\ promises[k].invoked <= 1
          /\ promises[k].status # "pending" =>
                /\ promises[k].invoked = 1
                /\ promises[k].id \notin DOMAIN responseHandlers
    /\ \A r \in Responses :
          (\E k \in 1..Len(promises) :
              promises[k].id = r.id /\ promises[k].status # "pending")
             => \A p \in Procs : Emit(inbound, Frame(r), attached[p]) = inbound

\* C10 witness: a call was completed by a chunk that two attached listeners
\* both handled.
C10_Witness ==
    \E k \in 1..Len(promises) :
        /\ promises[k].status # "pending"
        /\ promises[k].invoked = 1
        /\ promises[k].id = MaxId
        /\ attached[promises[k].proc] >= 2

\* Responses with an id field (ids issued, never issued, and 0), each with its frame.
IdObjects == {o \in Objects : o.hasId}
IdFrames == {<<o.id, Frame(o)>> : o \in IdObjects}

\* C11: a response whose id is not in the registry is dropped: handling it
\* completes no call and leaves the registry, the promises and the
\* continuation queue as they were (and so does every further listener that
\* handles the same chunk).
C11_UnknownIdDropped ==
    \A f \in IdFrames :
        f[1] \notin DOMAIN responseHandlers
            => HandleServerOutput(inbound, f[2]) = inbound

\* C11 witness: a call is pending on a live, attached process while the id of
\* a completed call and an id never issued are both absent from the registry.
C11_Witness ==
    /\ microtasks = <<>>
    /\ \E p \in Procs : attached[p] > 0 /\ ~closed[p]
    /\ DOMAIN responseHandlers # {}
    /\ \E k \in 1..Len(promises) : promises[k].status # "pending"
    /\ nextRequestId <= MaxId

\* The call registered under an id, in the handler state st.
CallOf(st, id) == st.pr[responseHandlers[id]]

\* The two halves of a split frame handled one after the other by n listeners.
AfterSplit(n) ==
    Emit(Emit(inbound, FirstHalf(SplitOf), n), SecondHalf(SplitOf), n)

\* C12: a response frame that arrives split across two consecutive chunks
\* completes the pending call with its id exactly once.
C12_SplitFrameCompletesCall ==
    (microtasks = <<>> /\ SplitOf.id \in DOMAIN responseHandlers)
        => \A p \in Procs :
              (attached[p] > 0 /\ ~closed[p])
                 => /\ CallOf(AfterSplit(attached[p]), SplitOf.id).invoked = 1
                    /\ CallOf(AfterSplit(attached[p]), SplitOf.id).status = "resolved"

\* Two frames in one chunk handled by n listeners.
AfterPair(n) == Emit(inbound, Frame(SplitOf) \o Frame(PairWith), n)

\* C13: a chunk holding two complete response frames completes both pending
\* calls, each with its own response.
C13_TwoFramesBothDispatched ==
    (/\ microtasks = <<>>
     /\ SplitOf.id \in DOMAIN responseHandlers
     /\ PairWith.id \in DOMAIN responseHandlers)
        => \A p \in Procs :
              (attached[p] > 0 /\ ~closed[p])
                 => /\ CallOf(AfterPair(attached[p]), SplitOf.id).status = "resolved"
                    /\ CallOf(AfterPair(attached[p]), PairWith.id).status = "resolved"

\* C14: nothing is ever written to the input stream of a process whose close
\* event has fired; the transport the Client holds is never a closed process;
\* and while the Client holds no transport, a step that attaches none (every
\* call or notification attempted before a new connect) writes nothing and
\* allocates no id.
C14_NoSendAfterClose ==
    /\ [](serverProcess # NoProc => ~closed[serverProcess])
    /\ [][\A p \in Procs : closed[p] => stdin'[p] = stdin[p]]_vars
    /\ [][(serverProcess = NoProc /\ serverProcess' = NoProc)
             => (stdin' = stdin /\ nextRequestId' = nextRequestId)]_vars

\* C14 witness: after a close event a call was attempted and failed, and a
\* notification attempted by a resumed initialize() wrote nothing: the closed
\* process received its initialize request and nothing else.
C14_Witness ==
    /\ \E p \in Procs : closed[p] /\ stdin[p] = <<<<"initialize", 1>>>>
    /\ \E k \in InitPromises : promises[k].conn = "resolved"
    /\ \A p \in Procs : \A i \in 1..Len(stdin[p]) : stdin[p][i] # Notified
    /\ thrown = "listTools"

\* Inbound content that is not a response: text without braces, the halves of
\* a split frame, braces around text that is not JSON, two objects in one
\* text, and JSON objects without an id field.
NonResponseChunks ==
    NoiseChunks \cup SplitChunks \cup PairChunks
       \cup {Frame(o) : o \in {x \in Objects : ~x.hasId}} \cup {<<LB, RB, NL>>}

\* C15: inbound content that is not a response is dropped: handling it fails
\* or resolves no call and leaves the registry, the promises and the
\* continuation queue as they were (and so does every further listener that
\* handles the same chunk).
C15_NonResponseDropped ==
    \A c \in NonResponseChunks : HandleServerOutput(inbound, c) = inbound

\* C15 witness: the calls named in the split and the two-frame chunk are both
\* pending on a live process with two listeners attached.
C15_Witness ==
    /\ microtasks = <<>>
    /\ {SplitOf.id, PairWith.id} \subseteq DOMAIN responseHandlers
    /\ \E p \in Procs : attached[p] >= 2 /\ ~closed[p]

\* C16: Ready implies a usable transport: isConnected only with a process attached.
C16_ReadyHasTransport == isConnected => serverProcess # NoProc

\* The session with the current process was established by a connect() to it
\* that succeeded.
ConnectedTo(q) ==
    /\ isConnected
    /\ serverProcess = q
    /\ \E k \in InitPromises : promises[k].proc = q /\ promises[k].conn = "resolved"

\* C17: the close event of a process other than the one the session is
\* connected to leaves the session connected to its process.
C17_CloseOnlyOwnSession ==
    [][\A p, q \in Procs :
          (p # q /\ ConnectedTo(q) /\ ~closed[p] /\ closed'[p])
             => (isConnected' /\ serverProcess' = q)]_vars

\* The request with this id was written to p's input stream.
ReceivedBy(p, id) ==
    \E i \in 1..Len(stdin[p]) : stdin[p][i] # Notified /\ stdin[p][i][2] = id

PendingCalls == {k \in 1..Len(promises) : promises[k].status = "pending"}

\* C18: the request of every call was written to exactly one process, the
\* call's own; the registry's keys are exactly the ids of the requests written
\* and not yet answered; and the call registered under an id is the call whose
\* request carried that id, so a process that answers only ids it received
\* completes only calls written to it.
C18_CallsCompletedByOwnProcess ==
    /\ \A k \in 1..Len(promises) :
          {p \in Procs : ReceivedBy(p, promises[k].id)} = {promises[k].proc}
    /\ DOMAIN responseHandlers = {promises[k].id : k \in PendingCalls}
    /\ \A id \in DOMAIN responseHandlers :
          /\ responseHandlers[id] \in PendingCalls
          /\ \A p \in Procs :
                ReceivedBy(p, id) => promises[responseHandlers[id]].proc = p

\* C18 witness: a call written to B was completed while an earlier call
\* written to A is still registered on the same Client.
C18_Witness ==
    \E j, k \in 1..Len(promises) :
        /\ j < k
        /\ promises[j].proc = "A" /\ promises[j].status = "pending"
        /\ promises[k].proc = "B" /\ promises[k].method = "tools/list"
        /\ promises[k].status = "resolved"

====
